---- MODULE Spec2Model ----
(***************************************************************************)
(* Model of the AirGradient InfluxDB firmware (src/src/main.cpp):          *)
(* setup(), loadConfig(), connectToWifi() and loop().                      *)
(*                                                                         *)
(* C strings are sequences of one-character strings.  A `const char *` is  *)
(* a record [isNull, s].  A float is a record [s, m, e] of value           *)
(* s * m * 2^e with s the sign and m a 24-bit significand (0 for zero).    *)
(***************************************************************************)
EXTENDS Integers, Sequences, FiniteSets, TLC

\* ------------------------------------------------------------------ bounds
MaxNameLen == 33        \* longest device_name put in a configuration file
MaxRestarts == 2        \* provisioning failures explored per run

\* ------------------------------------------------------- program constants
DeviceNameSize == 32    \* char deviceName[32]
DefaultSampleDelay == 10000
ProvisionTimeout == 120
PauseDisconnected == 500
PauseSensor == 3000

DEVICE == <<"E", "S", "P", "8", "2", "6", "6">>
DeviceId == <<"c", "0", "f", "f", "e", "e">>
UnknownDevice ==
  <<"u", "n", "k", "n", "o", "w", "n", "_", "d", "e", "v", "i", "c", "e">>
CertPinned == "InfluxDbCloud2CACert"
CertNone == "none"

\* --------------------------------------------------------------- C strings
NullPtr == [isNull |-> TRUE, s |-> <<>>]
Ptr(str) == [isNull |-> FALSE, s |-> str]

Min(a, b) == IF a < b THEN a ELSE b

\* strlcpy(dst, src, size): at most size-1 characters, always terminated
Strlcpy(src, size) == SubSeq(src, 1, Min(Len(src), size - 1))

\* String(const char *): a null pointer gives the empty String
CStrToString(p) == IF p.isNull THEN <<>> ELSE p.s

Digit(d) == <<"0", "1", "2", "3", "4", "5", "6", "7", "8", "9">>[d + 1]

RECURSIVE NatToString(_)
NatToString(n) ==
  IF n < 10 THEN <<Digit(n)>> ELSE NatToString(n \div 10) \o <<Digit(n % 10)>>

\* String(int)
IntToString(n) == IF n < 0 THEN <<"-">> \o NatToString(0 - n) ELSE NatToString(n)

\* ------------------------------------------------------------------ float
\* IEEE 754 single precision, round to nearest even, on finite normal
\* values; every intermediate integer stays below 2^31
F32(s, m, e) == [s |-> s, m |-> m, e |-> e]

FZero == F32(1, 0, 0)

\* the literal 1.8f (0x3FE66666) and the int 32 converted to float
F1_8 == F32(1, 15099494, -23)
F32_0 == F32(1, 8388608, -18)

RECURSIVE BitLen(_)
BitLen(n) == IF n = 0 THEN 0 ELSE 1 + BitLen(n \div 2)

\* the quotient q of a right shift, with a lost remainder r kept as a
\* sticky lowest bit
Sticky(q, r) == IF r # 0 /\ q % 2 = 0 THEN q + 1 ELSE q

\* the float nearest to s * T * 2^e, ties to the even significand
FloatNormalize(s, T, e) ==
  IF T = 0
  THEN FZero
  ELSE LET n == BitLen(T)
       IN  IF n <= 24
           THEN F32(s, T * 2 ^ (24 - n), e - (24 - n))
           ELSE LET k == n - 24
                    q == T \div 2 ^ k
                    r == T % 2 ^ k
                    half == 2 ^ (k - 1)
                    m == IF r > half \/ (r = half /\ q % 2 = 1)
                         THEN q + 1 ELSE q
                IN  IF m = 2 ^ 24
                    THEN F32(s, 2 ^ 23, e + k + 1)
                    ELSE F32(s, m, e + k)

\* a * b: the 48-bit product of the significands from 12-bit halves,
\* cut to 28 bits with a sticky bit, then rounded
FloatMul(a, b) ==
  IF a.m = 0 \/ b.m = 0
  THEN FZero
  ELSE LET a1 == a.m \div 4096
           a0 == a.m % 4096
           b1 == b.m \div 4096
           b0 == b.m % 4096
           mid == a1 * b0 + a0 * b1
           losum == (mid % 4096) * 4096 + a0 * b0
           lo == losum % 2 ^ 24
           hi == a1 * b1 + mid \div 4096 + losum \div 2 ^ 24
           T == Sticky(hi * 16 + lo \div 2 ^ 20, lo % 2 ^ 20)
       IN  FloatNormalize(a.s * b.s, T, a.e + b.e + 20)

\* x + y: the operand of smaller exponent is shifted right behind three
\* guard bits with a sticky bit, then the sum or difference is rounded
FloatAdd(x, y) ==
  IF x.m = 0 THEN y
  ELSE IF y.m = 0 THEN x
  ELSE LET xbig == x.e > y.e \/ (x.e = y.e /\ x.m >= y.m)
           big == IF xbig THEN x ELSE y
           small == IF xbig THEN y ELSE x
           d == big.e - small.e
           B == big.m * 8
           S == IF d > 26
                THEN 1
                ELSE Sticky((small.m * 8) \div 2 ^ d, (small.m * 8) % 2 ^ d)
           T == IF big.s = small.s THEN B + S ELSE B - S
       IN  FloatNormalize(big.s, T, big.e - 3)

\* ------------------------------------------------------------ JSON document
\* A JSON member is absent, a string, or an integer.
JAbsent == [k |-> "absent", s |-> <<>>, n |-> 0]
JStr(str) == [k |-> "str", s |-> str, n |-> 0]
JInt(i) == [k |-> "int", s |-> <<>>, n |-> i]

\* const char *p = doc[...]: null unless the member is a string
AsCStr(v) == IF v.k = "str" THEN Ptr(v.s) ELSE NullPtr

\* as AsIntOr, but without the default: a missing member converts to 0
AsIntOr_NoDefault(v, dflt) == IF v.k = "int" THEN v.n ELSE 0

\* doc[...] | dflt: the member when it is an integer, else the default
AsIntOr(v, dflt) == IF v.k = "int" THEN v.n ELSE dflt

NoFile == [kind |-> "nofile"]
Malformed == [kind |-> "malformed"]
Doc(name, delay, url, token, org, bucket) ==
  [kind |-> "doc", device_name |-> name, sample_delay |-> delay,
   url |-> url, token |-> token, org |-> org, bucket |-> bucket]

Fill(n, c) == [i \in 1..n |-> c]

NameLens == (0..2) \cup ((DeviceNameSize - 2)..MaxNameLen)
Names == {JAbsent, JInt(7)} \cup {JStr(Fill(n, "a")) : n \in NameLens}
         \cup {JStr(Fill(n - 1, "a") \o <<"z">>) : n \in NameLens \ {0}}
Delays == {JAbsent, JStr(<<"5">>), JInt(0), JInt(5000), JInt(60000)}
ParamValues(c) == {JAbsent, JStr(<<>>), JStr(<<c>>)}

AllDocs ==
  {Doc(nm, d, u, t, o, b) :
     nm \in Names, d \in Delays, u \in ParamValues("u"),
     t \in ParamValues("t"), o \in ParamValues("o"), b \in ParamValues("b")}

Room1Doc ==
  Doc(JStr(<<"r", "o", "o", "m", "1">>), JInt(5000), JStr(<<"u">>),
      JStr(<<"t">>), JStr(<<"o">>), JStr(<<"b">>))
Room1SlowDoc ==
  Doc(JStr(<<"r", "o", "o", "m", "1">>), JInt(60000), JStr(<<"u">>),
      JStr(<<"t">>), JStr(<<"o">>), JStr(<<"b">>))
EmptyDoc ==
  Doc(JAbsent, JAbsent, JStr(<<>>), JStr(<<>>), JStr(<<>>), JStr(<<>>))
LongNameDoc ==
  Doc(JStr(Fill(MaxNameLen, "a")), JAbsent, JStr(<<"u">>), JAbsent,
      JStr(<<"o">>), JStr(<<"b">>))

LoopFiles ==
  {NoFile, Malformed, Room1Doc, Room1SlowDoc, EmptyDoc, LongNameDoc}
AllFiles == {NoFile, Malformed} \cup AllDocs

\* ------------------------------------------------------------------- state
VARIABLES
  configFile,     \* content of /config.json in the persisted file store
  hasPM, hasCO2, hasSHT, connectWIFI,   \* build-time sensor / wifi flags
  pc,             \* position of the single thread of control
  sensorTags,     \* Point sensor: tags, in order of addTag
  sensorFields,   \* Point sensor: fields, in order of addField
  deviceConfig,   \* DeviceConfig_t deviceConfig
  client,         \* InfluxDBClient client: connection parameters, TLS mode
  display,        \* the two lines last drawn, or <<>> before any drawing
  inited,         \* sensors whose init was called since the last reset
  loadResult,     \* return value of loadConfig: "none", "true", "false"
  trace,          \* operations of the current boot / the current cycle
  written,        \* points handed to writePoint in the current cycle
  writeOk,        \* result of the last writePoint
  provFailed,     \* autoConnect failed since the last reset
  provFailures,   \* number of failed autoConnect calls
  restarts,       \* number of ESP.restart() invocations
  validations,    \* results of the validateConnection calls since the last reset
  tick            \* parity of the number of loop() calls

flags == <<hasPM, hasCO2, hasSHT, connectWIFI>>
volatile == <<pc, sensorTags, sensorFields, deviceConfig, client, display,
              inited, loadResult, trace, written, writeOk, provFailed,
              validations>>
vars == <<configFile, flags, volatile, provFailures, restarts, tick>>

\* DeviceConfig_t deviceConfig at module scope: zero-initialised
DeviceConfigInit == [deviceName |-> <<>>, sampleDelay |-> 0]

\* InfluxDBClient(): no connection parameters, no certificate
ClientInit ==
  [url |-> <<>>, org |-> <<>>, bucket |-> <<>>, token |-> <<>>,
   cert |-> CertNone, insecure |-> FALSE, paramsSet |-> FALSE]

\* the state of the RAM after power-on or reset, before setup()
PowerOn ==
  /\ pc = "setup"
  /\ sensorTags = <<>>
  /\ sensorFields = <<>>
  /\ deviceConfig = DeviceConfigInit
  /\ client = ClientInit
  /\ display = <<>>
  /\ inited = {}
  /\ loadResult = "none"
  /\ trace = <<>>
  /\ written = <<>>
  /\ writeOk = TRUE
  /\ provFailed = FALSE
  /\ validations = <<>>

InitWith(files) ==
  /\ configFile \in files
  /\ hasPM \in BOOLEAN
  /\ hasCO2 \in BOOLEAN
  /\ hasSHT \in BOOLEAN
  /\ connectWIFI \in BOOLEAN
  /\ PowerOn
  /\ provFailures = 0
  /\ restarts = 0
  /\ tick = 0

Init == InitWith(LoopFiles)

\* --------------------------------------------------------------- helpers
StrInit == <<"I", "n", "i", "t">>
StrPM2 == <<"P", "M", "2">>
StrCO2 == <<"C", "O", "2">>
StrError == <<"e", "r", "r", "o", "r">>

Log(e) == trace' = Append(trace, e)

\* showTextRectangle(ln1, ln2, small): draws the two lines
ShowTextRectangle(ln1, ln2) == display' = <<ln1, ln2>>

\* ------------------------------------------------------------------ setup
\* setup(), lines 114-126: display.begin(), mount of the file store; a
\* failed mount returns from setup(), after which the core calls loop()
SetupMount ==
  /\ pc = "setup"
  /\ \E mounted \in BOOLEAN :
       IF mounted
       THEN /\ ShowTextRectangle(StrInit, DeviceId)
            /\ Log(<<"display", StrInit, DeviceId>>)
            /\ pc' = "init_sensors"
       ELSE /\ Log(<<"mount_failed">>)
            /\ pc' = "loop"
            /\ UNCHANGED display
  /\ UNCHANGED <<configFile, flags, sensorTags, sensorFields, deviceConfig,
                 client, inited, loadResult, written, writeOk, provFailed,
                 validations, provFailures, restarts, tick>>

\* setup(), lines 128-133: PMS_Init, CO2_Init, TMP_RH_Init
SetupInitSensors ==
  /\ pc = "init_sensors"
  /\ inited' = inited \cup (IF hasPM THEN {"pm"} ELSE {})
                       \cup (IF hasCO2 THEN {"co2"} ELSE {})
                       \cup (IF hasSHT THEN {"sht"} ELSE {})
  /\ pc' = "connect_wifi"
  /\ UNCHANGED <<configFile, flags, sensorTags, sensorFields, deviceConfig,
                 client, display, loadResult, trace, written, writeOk,
                 provFailed, validations, provFailures, restarts, tick>>

\* ESP.restart(): the device resets, RAM is re-initialised, setup() runs
\* again; the file store and the build flags survive
EspRestart ==
  /\ restarts' = restarts + 1
  /\ pc' = "setup"
  /\ sensorTags' = <<>>
  /\ sensorFields' = <<>>
  /\ deviceConfig' = DeviceConfigInit
  /\ client' = ClientInit
  /\ display' = <<>>
  /\ inited' = {}
  /\ loadResult' = "none"
  /\ trace' = <<>>
  /\ written' = <<>>
  /\ writeOk' = TRUE
  /\ provFailed' = FALSE
  /\ validations' = <<>>
  /\ UNCHANGED <<configFile, flags, tick>>

\* as AutoConnectFailed, but the restart never happens and setup() goes on
AutoConnectFailed_Continues ==
  /\ provFailures' = provFailures + 1
  /\ provFailed' = TRUE
  /\ Log(<<"autoConnect", ProvisionTimeout>>)
  /\ pc' = "load_config"
  /\ UNCHANGED <<configFile, flags, sensorTags, sensorFields, deviceConfig,
                 client, display, inited, loadResult, written, writeOk,
                 validations, restarts, tick>>

\* connectToWifi(), lines 297-302: autoConnect timed out
AutoConnectFailed ==
  /\ provFailures' = provFailures + 1
  /\ EspRestart

\* connectToWifi(), lines 303-304: autoConnect succeeded
AutoConnectSucceeded ==
  /\ Log(<<"autoConnect", ProvisionTimeout>>)
  /\ pc' = "load_config"
  /\ UNCHANGED <<configFile, flags, sensorTags, sensorFields, deviceConfig,
                 client, display, inited, loadResult, written, writeOk,
                 provFailed, validations, provFailures, restarts, tick>>

\* connectToWifi(): setTimeout(120), autoConnect(), restart on failure
ConnectToWifi ==
  \E ok \in BOOLEAN :
    /\ ok \/ restarts < MaxRestarts
    /\ IF ok THEN AutoConnectSucceeded ELSE AutoConnectFailed

\* setup(), lines 135-137: if (connectWIFI) connectToWifi(); delay(2000)
SetupConnect ==
  /\ pc = "connect_wifi"
  /\ IF connectWIFI
     THEN ConnectToWifi
     ELSE /\ pc' = "load_config"
          /\ UNCHANGED <<configFile, flags, sensorTags, sensorFields,
                         deviceConfig, client, display, inited, loadResult,
                         trace, written, writeOk, provFailed, validations,
                         provFailures, restarts, tick>>

\* ------------------------------------------------------------- loadConfig
\* lines 224-238: the file opens and deserializeJson reports no error
Parses(file) == file.kind = "doc"

\* lines 258-268: deviceConfig after a successful parse
LoadedDeviceConfig(doc) ==
  LET deviceName == AsCStr(doc.device_name)
  IN  [sampleDelay |-> AsIntOr(doc.sample_delay, DefaultSampleDelay),
       deviceName |-> IF ~deviceName.isNull
                      THEN Strlcpy(deviceName.s, DeviceNameSize)
                      ELSE UnknownDevice]

\* as LoadedClient, but with org and bucket in each other's position
LoadedClient_Swapped(doc) ==
  LET url == AsCStr(doc.url)
      token == AsCStr(doc.token)
      org == AsCStr(doc.org)
      bucket == AsCStr(doc.bucket)
  IN  [url |-> CStrToString(url), org |-> CStrToString(bucket),
       bucket |-> CStrToString(org), token |-> CStrToString(token),
       cert |-> CertPinned, insecure |-> FALSE, paramsSet |-> TRUE]

\* lines 240-252 with USE_IRSG_ROOT_CERT defined (config.h):
\* setConnectionParams(url, org, bucket, token, cert); setInsecure(false)
LoadedClient(doc) ==
  LET url == AsCStr(doc.url)
      token == AsCStr(doc.token)
      org == AsCStr(doc.org)
      bucket == AsCStr(doc.bucket)
  IN  [url |-> CStrToString(url), org |-> CStrToString(org),
       bucket |-> CStrToString(bucket), token |-> CStrToString(token),
       cert |-> CertPinned, insecure |-> FALSE, paramsSet |-> TRUE]

\* as LoadConfig, but a failed load writes the defaults into deviceConfig
LoadConfig_DefaultsOnError ==
  IF Parses(configFile)
  THEN /\ client' = LoadedClient(configFile)
       /\ deviceConfig' = LoadedDeviceConfig(configFile)
       /\ loadResult' = "true"
  ELSE /\ loadResult' = "false"
       /\ deviceConfig' = [deviceName |-> UnknownDevice,
                           sampleDelay |-> DefaultSampleDelay]
       /\ UNCHANGED client

\* bool loadConfig()
LoadConfig ==
  IF Parses(configFile)
  THEN /\ client' = LoadedClient(configFile)
       /\ deviceConfig' = LoadedDeviceConfig(configFile)
       /\ loadResult' = "true"
  ELSE /\ loadResult' = "false"
       /\ UNCHANGED <<client, deviceConfig>>

\* setup(), lines 139-143: timeSync(...); loadConfig()
SetupLoadConfig ==
  /\ pc = "load_config"
  /\ LoadConfig
  /\ Log(<<"loadConfig">>)
  /\ pc' = "add_tags"
  /\ UNCHANGED <<configFile, flags, sensorTags, sensorFields, display,
                 inited, written, writeOk, provFailed, validations,
                 provFailures, restarts, tick>>

\* setup(), lines 146-148: the three addTag calls
AddTags(tags) ==
  tags \o <<<<"device", DEVICE>>, <<"id", DeviceId>>,
            <<"deviceName", deviceConfig.deviceName>>>>

SetupAddTags ==
  /\ pc = "add_tags"
  /\ sensorTags' = AddTags(sensorTags)
  /\ pc' = "validate"
  /\ UNCHANGED <<configFile, flags, sensorFields, deviceConfig, client,
                 display, inited, loadResult, trace, written, writeOk,
                 provFailed, validations, provFailures, restarts, tick>>

\* as AfterValidate, but a failed validation keeps the device out of loop()
AfterValidate_FatalOnFailure(ok) == IF ok THEN "loop" ELSE "halted"

\* the position setup() is left at after validateConnection returned ok
AfterValidate(ok) == "loop"

\* setup(), lines 151-160: validateConnection(), result only logged
SetupValidate ==
  /\ pc = "validate"
  /\ \E ok \in BOOLEAN :
       /\ Log(<<"validateConnection", ok>>)
       /\ validations' = Append(validations, ok)
       /\ pc' = AfterValidate(ok)
  /\ UNCHANGED <<configFile, flags, sensorTags, sensorFields, deviceConfig,
                 client, display, inited, loadResult, written, writeOk,
                 provFailed, provFailures, restarts, tick>>

\* ------------------------------------------------------------------- loop
\* values the sensor drivers and the radio can return
PMReadings == {-2, -1, 0, 12}
CO2Readings == {-1, 0, 1, 400}
TempReadings ==
  {F32(-1, 10485760, -21),    \* -5.0
   F32(-1, 10485760, -18),    \* -40.0
   F32(1, 0, 0),              \* 0.0
   F32(1, 11272192, -19),     \* 21.5
   F32(1, 12425626, -19)}     \* 23.7f
HumReadings == {0, 45}
RssiReadings == {-70, -50}

\* as ClearFields, but the fields of the earlier cycle stay in the point
ClearFields_Keeps(fields) == fields

\* Point::clearFields()
ClearFields(fields) == <<>>

\* Point::addField(name, value)
AddField(fields, name, value) == Append(fields, <<name, value>>)

\* as TempF, but without the offset of 32
TempF_NoOffset(t) == FloatMul(t, F1_8)

\* float temp_f = (result.t * 1.8f) + 32
TempF(t) == FloatAdd(FloatMul(t, F1_8), F32_0)

\* String(float): two decimals, the magnitude rounded half up
FloatToString(v) ==
  LET n == 0 - v.e
      c == v.m * 100
      q == IF n <= 0 THEN c * 2 ^ v.e ELSE IF n <= 30 THEN c \div 2 ^ n ELSE 0
      r == IF n <= 0 THEN 0 ELSE IF n <= 30 THEN c % 2 ^ n ELSE c
      up == n >= 1 /\ n <= 31 /\ r >= 2 ^ (n - 1)
      h == IF up THEN q + 1 ELSE q
  IN  (IF v.s < 0 THEN <<"-">> ELSE <<>>) \o NatToString(h \div 100)
      \o <<".", Digit((h \div 10) % 10), Digit(h % 10)>>

\* as PollDisconnected, but without the early return
PollDisconnected_FallsThrough ==
  /\ sensorFields' = ClearFields(sensorFields)
  /\ trace' = <<<<"poll", FALSE>>, <<"clearFields">>>>
  /\ pc' = "pm"

\* loop(), lines 166-170: the radio is not connected: delay(500); return
PollDisconnected ==
  /\ trace' = <<<<"poll", FALSE>>, <<"delay", PauseDisconnected>>>>
  /\ pc' = "loop"
  /\ UNCHANGED sensorFields

\* as PollConnected, but the first connected poll after a disconnected
\* cycle is spent waiting instead of sampling
PollConnected_BacksOff ==
  IF Len(trace) > 0 /\ trace[1][1] = "poll" /\ ~trace[1][2]
  THEN /\ trace' = <<<<"poll", TRUE>>, <<"delay", PauseDisconnected>>>>
       /\ pc' = "loop"
       /\ UNCHANGED sensorFields
  ELSE /\ sensorFields' = ClearFields(sensorFields)
       /\ trace' = <<<<"poll", TRUE>>, <<"clearFields">>>>
       /\ pc' = "pm"

\* loop(), line 172: the radio is connected: sensor.clearFields()
PollConnected ==
  /\ sensorFields' = ClearFields(sensorFields)
  /\ trace' = <<<<"poll", TRUE>>, <<"clearFields">>>>
  /\ pc' = "pm"

\* loop(), lines 166-172: wifiMulti.run() != WL_CONNECTED
LoopPoll ==
  /\ pc = "loop"
  /\ \E connected \in BOOLEAN :
       IF connected THEN PollConnected ELSE PollDisconnected
  /\ written' = <<>>
  /\ tick' = 1 - tick
  /\ UNCHANGED <<configFile, flags, sensorTags, deviceConfig, client,
                 display, inited, loadResult, writeOk, provFailed,
                 validations, provFailures, restarts>>

\* as StepAfter, but the temperature sensor is read before the CO2 sensor
StepAfter_CO2Last(step) ==
  CASE step = "pm" -> "sht"
    [] step = "sht" -> "co2"
    [] step = "co2" -> "rssi"
    [] step = "rssi" -> "write"

\* loop(), lines 174-215: the statements that follow one another
StepAfter(step) ==
  CASE step = "pm" -> "co2"
    [] step = "co2" -> "sht"
    [] step = "sht" -> "rssi"
    [] step = "rssi" -> "write"

\* as SamplePM, but an invalid reading leaves the display as it was
SamplePM_SilentError(PM2) ==
  IF PM2 >= 0
  THEN /\ sensorFields' = AddField(sensorFields, "pm2.5", PM2)
       /\ ShowTextRectangle(StrPM2, IntToString(PM2))
       /\ trace' = trace \o <<<<"read", "pm", PM2>>,
                               <<"display", StrPM2, IntToString(PM2)>>,
                               <<"delay", PauseSensor>>>>
  ELSE /\ trace' = trace \o <<<<"read", "pm", PM2>>,
                               <<"delay", PauseSensor>>>>
       /\ UNCHANGED <<sensorFields, display>>

\* as SamplePM, but the pause after the read is the configured sample_delay
SamplePM_PausesSampleDelay(PM2) ==
  IF PM2 >= 0
  THEN /\ sensorFields' = AddField(sensorFields, "pm2.5", PM2)
       /\ ShowTextRectangle(StrPM2, IntToString(PM2))
       /\ trace' = trace \o <<<<"read", "pm", PM2>>,
                               <<"display", StrPM2, IntToString(PM2)>>,
                               <<"delay", deviceConfig.sampleDelay>>>>
  ELSE /\ ShowTextRectangle(StrPM2, StrError)
       /\ trace' = trace \o <<<<"read", "pm", PM2>>,
                               <<"display", StrPM2, StrError>>,
                               <<"delay", deviceConfig.sampleDelay>>>>
       /\ UNCHANGED sensorFields

\* as SamplePM, but a reading of 0 counts as invalid
SamplePM_ZeroInvalid(PM2) ==
  IF PM2 > 0
  THEN /\ sensorFields' = AddField(sensorFields, "pm2.5", PM2)
       /\ ShowTextRectangle(StrPM2, IntToString(PM2))
       /\ trace' = trace \o <<<<"read", "pm", PM2>>,
                               <<"display", StrPM2, IntToString(PM2)>>,
                               <<"delay", PauseSensor>>>>
  ELSE /\ ShowTextRectangle(StrPM2, StrError)
       /\ trace' = trace \o <<<<"read", "pm", PM2>>,
                               <<"display", StrPM2, StrError>>,
                               <<"delay", PauseSensor>>>>
       /\ UNCHANGED sensorFields

\* lines 176-185: the particulate sensor, when enabled
SamplePM(PM2) ==
  IF PM2 >= 0
  THEN /\ sensorFields' = AddField(sensorFields, "pm2.5", PM2)
       /\ ShowTextRectangle(StrPM2, IntToString(PM2))
       /\ trace' = trace \o <<<<"read", "pm", PM2>>,
                               <<"display", StrPM2, IntToString(PM2)>>,
                               <<"delay", PauseSensor>>>>
  ELSE /\ ShowTextRectangle(StrPM2, StrError)
       /\ trace' = trace \o <<<<"read", "pm", PM2>>,
                               <<"display", StrPM2, StrError>>,
                               <<"delay", PauseSensor>>>>
       /\ UNCHANGED sensorFields

\* loop(), lines 174-186
LoopPM ==
  /\ pc = "pm"
  /\ IF hasPM
     THEN \E PM2 \in PMReadings : SamplePM(PM2)
     ELSE UNCHANGED <<sensorFields, display, trace>>
  /\ pc' = StepAfter("pm")
  /\ UNCHANGED <<configFile, flags, sensorTags, deviceConfig, client, inited,
                 loadResult, written, writeOk, provFailed, validations,
                 provFailures, restarts, tick>>

\* as SampleCO2, but a reading that is not above 0 is published as 0
SampleCO2_ZeroFilled(CO2) ==
  LET v == IF CO2 > 0 THEN CO2 ELSE 0
  IN  /\ sensorFields' = AddField(sensorFields, "co2", v)
      /\ ShowTextRectangle(StrCO2, IntToString(v))
      /\ trace' = trace \o <<<<"read", "co2", CO2>>,
                              <<"display", StrCO2, IntToString(v)>>,
                              <<"delay", PauseSensor>>>>

\* as SampleCO2, but with the particulate test: a reading of 0 is valid
SampleCO2_ZeroValid(CO2) ==
  IF CO2 >= 0
  THEN /\ sensorFields' = AddField(sensorFields, "co2", CO2)
       /\ ShowTextRectangle(StrCO2, IntToString(CO2))
       /\ trace' = trace \o <<<<"read", "co2", CO2>>,
                               <<"display", StrCO2, IntToString(CO2)>>,
                               <<"delay", PauseSensor>>>>
  ELSE /\ ShowTextRectangle(StrCO2, StrError)
       /\ trace' = trace \o <<<<"read", "co2", CO2>>,
                               <<"display", StrCO2, StrError>>,
                               <<"delay", PauseSensor>>>>
       /\ UNCHANGED sensorFields

\* lines 190-198: the CO2 sensor, when enabled
SampleCO2(CO2) ==
  IF CO2 > 0
  THEN /\ sensorFields' = AddField(sensorFields, "co2", CO2)
       /\ ShowTextRectangle(StrCO2, IntToString(CO2))
       /\ trace' = trace \o <<<<"read", "co2", CO2>>,
                               <<"display", StrCO2, IntToString(CO2)>>,
                               <<"delay", PauseSensor>>>>
  ELSE /\ ShowTextRectangle(StrCO2, StrError)
       /\ trace' = trace \o <<<<"read", "co2", CO2>>,
                               <<"display", StrCO2, StrError>>,
                               <<"delay", PauseSensor>>>>
       /\ UNCHANGED sensorFields

\* loop(), lines 188-199
LoopCO2 ==
  /\ pc = "co2"
  /\ IF hasCO2
     THEN \E CO2 \in CO2Readings : SampleCO2(CO2)
     ELSE UNCHANGED <<sensorFields, display, trace>>
  /\ pc' = StepAfter("co2")
  /\ UNCHANGED <<configFile, flags, sensorTags, deviceConfig, client, inited,
                 loadResult, written, writeOk, provFailed, validations,
                 provFailures, restarts, tick>>

\* lines 203-209: the temperature / humidity sensor, when enabled
\* temp_f for every reading of the bounded set
TempFOf == [t \in TempReadings |-> TempF(t)]

SampleSHT(t, rh) ==
  LET temp_f == TempFOf[t]
      ln1 == FloatToString(temp_f)
      ln2 == IntToString(rh) \o <<"%">>
  IN  /\ sensorFields' =
           AddField(AddField(AddField(sensorFields, "temp_c", t),
                             "temp_f", temp_f), "humidity", rh)
      /\ ShowTextRectangle(ln1, ln2)
      /\ trace' = trace \o <<<<"read", "sht", t, rh>>,
                              <<"display", ln1, ln2>>,
                              <<"delay", PauseSensor>>>>

\* loop(), lines 201-210
LoopSHT ==
  /\ pc = "sht"
  /\ IF hasSHT
     THEN \E t \in TempReadings, rh \in HumReadings : SampleSHT(t, rh)
     ELSE UNCHANGED <<sensorFields, display, trace>>
  /\ pc' = StepAfter("sht")
  /\ UNCHANGED <<configFile, flags, sensorTags, deviceConfig, client, inited,
                 loadResult, written, writeOk, provFailed, validations,
                 provFailures, restarts, tick>>

\* loop(), line 212: sensor.addField("rssi", WiFi.RSSI())
LoopRssi ==
  /\ pc = "rssi"
  /\ \E rssi \in RssiReadings :
       /\ sensorFields' = AddField(sensorFields, "rssi", rssi)
       /\ trace' = Append(trace, <<"read", "rssi", rssi>>)
  /\ pc' = StepAfter("rssi")
  /\ UNCHANGED <<configFile, flags, sensorTags, deviceConfig, client,
                 display, inited, loadResult, written, writeOk, provFailed,
                 validations, provFailures, restarts, tick>>

\* as AfterWrite, but a failed write stops the loop
AfterWrite_HaltsOnFailure(ok) == IF ok THEN "loop" ELSE "halted"

\* the position loop() is left at after writePoint returned ok
AfterWrite(ok) == "loop"

\* loop(), lines 215-219: client.writePoint(sensor); a failure is logged
LoopWrite ==
  /\ pc = "write"
  /\ \E ok \in BOOLEAN :
       /\ writeOk' = ok
       /\ trace' = Append(trace, <<"writePoint", ok>>)
       /\ pc' = AfterWrite(ok)
  /\ written' = Append(written, [fields |-> sensorFields, tags |-> sensorTags])
  /\ UNCHANGED <<configFile, flags, sensorTags, sensorFields, deviceConfig,
                 client, display, inited, loadResult, provFailed,
                 validations, provFailures, restarts, tick>>

\* ---------------------------------------------------------- specification
Next ==
  \/ SetupMount
  \/ SetupInitSensors
  \/ SetupConnect
  \/ SetupLoadConfig
  \/ SetupAddTags
  \/ SetupValidate
  \/ LoopPoll
  \/ LoopPM
  \/ LoopCO2
  \/ LoopSHT
  \/ LoopRssi
  \/ LoopWrite

Spec == Init /\ [][Next]_vars

\* the single thread of control never stops: the core calls loop() again
\* whenever it returns, and every blocking call returns
LiveSpec == Init /\ [][Next]_vars /\ WF_vars(Next)

\* the boot alone, over every configuration file of the bounded set
InitConfig ==
  /\ InitWith(AllFiles)
  /\ hasPM /\ hasCO2 /\ hasSHT

NextConfig ==
  \/ SetupMount
  \/ SetupInitSensors
  \/ SetupConnect
  \/ SetupLoadConfig
  \/ SetupAddTags
  \/ SetupValidate

SpecConfig == InitConfig /\ [][NextConfig]_vars

\* ------------------------------------------------- reading the cycle trace
FieldKeys(fields) == {fields[i][1] : i \in DOMAIN fields}

IsRead(e, kind) == e[1] = "read" /\ e[2] = kind

HasRead(kind) == \E i \in DOMAIN trace : IsRead(trace[i], kind)

\* the event of the current cycle's read of the sensor
ReadEvent(kind) == trace[CHOOSE i \in DOMAIN trace : IsRead(trace[i], kind)]

Reading(kind) == ReadEvent(kind)[3]

\* the current cycle's poll of the radio reported connected / not connected
CyclePolled(connected) ==
  /\ Len(trace) > 0
  /\ trace[1][1] = "poll"
  /\ trace[1][2] = connected

\* the cycle is over: loop() has returned
CycleDone == pc = "loop" /\ Len(trace) > 0 /\ trace[1][1] = "poll"

\* ----------------------------------------------------------------- claims
\* C1: the point handed to writePoint in a connected cycle has exactly the
\* fields pm2.5 (PM enabled, reading >= 0), co2 (CO2 enabled, reading > 0),
\* temp_c, temp_f, humidity (SHT enabled) and rssi, each once, whatever the
\* flags, the readings and the earlier cycles.
C1_ExpectedKeys ==
  (IF hasPM /\ Reading("pm") >= 0 THEN {"pm2.5"} ELSE {})
  \cup (IF hasCO2 /\ Reading("co2") > 0 THEN {"co2"} ELSE {})
  \cup (IF hasSHT THEN {"temp_c", "temp_f", "humidity"} ELSE {})
  \cup {"rssi"}

C1_FieldSetExact ==
  \A i \in DOMAIN written :
    /\ CyclePolled(TRUE)
    /\ FieldKeys(written[i].fields) = C1_ExpectedKeys
    /\ Len(written[i].fields) = Cardinality(C1_ExpectedKeys)

\* a cycle wrote a point holding rssi alone: PM and CO2 are enabled but
\* both readings are invalid, and the temperature sensor is disabled
C1_Witness ==
  /\ Len(written) = 1
  /\ hasPM /\ hasCO2 /\ ~hasSHT
  /\ Reading("pm") < 0 /\ Reading("co2") = 0
  /\ FieldKeys(written[1].fields) = {"rssi"}

\* C2: a cycle whose poll reports not connected reads no sensor, leaves the
\* display and the point alone, does not call writePoint, and ends after
\* delay(500).
C2_DisconnectedStep ==
  (pc = "loop" /\ CyclePolled(FALSE)')
    => /\ trace' = <<<<"poll", FALSE>>, <<"delay", PauseDisconnected>>>>
       /\ pc' = "loop"
       /\ display' = display
       /\ sensorFields' = sensorFields
       /\ written' = <<>>

C2_DisconnectedCycleSkips == [][C2_DisconnectedStep]_vars

\* a disconnected cycle that follows a connected one: the point still holds
\* the earlier fields and nothing was written
C2_Witness ==
  /\ CyclePolled(FALSE)
  /\ pc = "loop"
  /\ sensorFields # <<>>
  /\ display # <<>>
  /\ written = <<>>

\* C3: after a failed writePoint loop() returns and can be entered again,
\* and the next connected cycle starts adding fields to an empty point.
C3_FailedWriteNoCarryover ==
  /\ ~writeOk => pc \in {"loop", "pm", "co2", "sht", "rssi", "write"}
  /\ (~writeOk /\ pc = "loop") => ENABLED LoopPoll
  /\ (~writeOk /\ pc = "pm") => sensorFields = <<>>

\* the cycle after a failed write has polled connected and cleared the point
C3_Witness ==
  /\ ~writeOk
  /\ pc = "pm"
  /\ CyclePolled(TRUE)

\* C4: every failed autoConnect is followed by exactly one ESP.restart(),
\* and no later step of setup() or loop() runs in a boot whose provisioning
\* failed.
C4_ProvisioningFailureRestarts ==
  /\ restarts = provFailures
  /\ ~provFailed

\* a boot after a failed provisioning and its restart has reached sampling
C4_Witness ==
  /\ provFailures >= 1
  /\ restarts >= 1
  /\ pc = "pm"

\* C5: every point handed to writePoint carries the tags device, id and
\* deviceName attached at boot.
C5_TagsOnEveryPoint ==
  \A i \in DOMAIN written :
    written[i].tags = <<<<"device", DEVICE>>, <<"id", DeviceId>>,
                        <<"deviceName", deviceConfig.deviceName>>>>

\* the fields of the cycle, in the order loop() adds them, from the
\* readings of the cycle
C6_CycleFields ==
  (IF hasPM /\ Reading("pm") >= 0
   THEN <<<<"pm2.5", Reading("pm")>>>> ELSE <<>>)
  \o (IF hasCO2 /\ Reading("co2") > 0
      THEN <<<<"co2", Reading("co2")>>>> ELSE <<>>)
  \o (IF hasSHT
      THEN <<<<"temp_c", ReadEvent("sht")[3]>>,
             <<"temp_f", TempF(ReadEvent("sht")[3])>>,
             <<"humidity", ReadEvent("sht")[4]>>>>
      ELSE <<>>)
  \o <<<<"rssi", Reading("rssi")>>>>

\* C6: a connected cycle calls writePoint exactly once, and the point holds
\* the values read in that cycle only: nothing of a failed (or any) earlier
\* point is sent again.
C6_AtMostOncePerCycle ==
  /\ Len(written) <= 1
  /\ (CycleDone /\ CyclePolled(TRUE)) => Len(written) = 1
  /\ (CycleDone /\ CyclePolled(FALSE)) => Len(written) = 0
  /\ \A i \in DOMAIN written : written[i].fields = C6_CycleFields

\* a connected cycle has ended with a failed write
C6_Witness ==
  /\ CycleDone
  /\ CyclePolled(TRUE)
  /\ ~writeOk
  /\ Len(written) = 1

\* C7: when loadConfig fails the device reaches the main loop with
\* deviceName "unknown_device", sampleDelay 10000 and empty connection
\* parameters.
C7_DefaultsOnLoadFailure ==
  (loadResult = "false" /\ pc = "loop")
    => /\ deviceConfig.deviceName = UnknownDevice
       /\ deviceConfig.sampleDelay = DefaultSampleDelay
       /\ client.url = <<>> /\ client.org = <<>>
       /\ client.bucket = <<>> /\ client.token = <<>>

\* the file holds a document with string device_name, integer sample_delay
\* and four string influx_db values
CarriesAll ==
  /\ configFile.kind = "doc"
  /\ configFile.device_name.k = "str"
  /\ configFile.sample_delay.k = "int"
  /\ configFile.url.k = "str" /\ configFile.token.k = "str"
  /\ configFile.org.k = "str" /\ configFile.bucket.k = "str"

ParamsVerbatim ==
  /\ client.url = configFile.url.s
  /\ client.org = configFile.org.s
  /\ client.bucket = configFile.bucket.s
  /\ client.token = configFile.token.s

NoNameNoDelayEmptyParams ==
  /\ configFile.kind = "doc"
  /\ configFile.device_name.k = "absent"
  /\ configFile.sample_delay.k = "absent"
  /\ \A v \in {configFile.url, configFile.token, configFile.org,
                configFile.bucket} : v.k = "absent" \/ v = JStr(<<>>)

\* C9: loadConfig on such a document returns true with deviceName
\* "unknown_device" and sampleDelay 10000; the empty parameters reach the
\* client and setup() goes on without a restart.
C9_DefaultsWhenAbsent ==
  (NoNameNoDelayEmptyParams /\ loadResult # "none")
    => /\ loadResult = "true"
       /\ deviceConfig.deviceName = UnknownDevice
       /\ deviceConfig.sampleDelay = DefaultSampleDelay
       /\ client.paramsSet
       /\ client.url = <<>> /\ client.org = <<>>
       /\ client.bucket = <<>> /\ client.token = <<>>
       /\ pc \notin {"setup", "init_sensors", "connect_wifi", "load_config"}
       /\ restarts = provFailures

\* setup() has finished on a document with a missing url and an empty token
C9_Witness ==
  /\ NoNameNoDelayEmptyParams
  /\ configFile.url.k = "absent"
  /\ configFile.token.k = "str"
  /\ loadResult = "true"
  /\ pc = "loop"

\* C10: with the particulate sensor enabled, a written point has no pm2.5
\* field when the reading is below 0, and has exactly one pm2.5 field, equal
\* to the reading, when the reading is 0 or more.
C10_PMSentinelOmitted ==
  \A i \in DOMAIN written :
    hasPM =>
      LET PM2 == Reading("pm")
          pm == {j \in DOMAIN written[i].fields :
                   written[i].fields[j][1] = "pm2.5"}
      IN  /\ PM2 < 0 => pm = {}
          /\ PM2 >= 0 => /\ Cardinality(pm) = 1
                         /\ \A j \in pm : written[i].fields[j][2] = PM2

\* a point without pm2.5 was written in a cycle whose particulate reading
\* was -1
C10_Witness ==
  /\ Len(written) = 1
  /\ hasPM
  /\ Reading("pm") = -1
  /\ "pm2.5" \notin FieldKeys(written[1].fields)

\* C11: with the CO2 sensor enabled, a written point has no co2 field when
\* the reading is 0 or below, and has exactly one co2 field, equal to the
\* reading, when the reading is above 0; a particulate reading of 0 in the
\* same point is published.
C11_CO2SentinelOmitted ==
  \A i \in DOMAIN written :
    hasCO2 =>
      LET CO2 == Reading("co2")
          co2 == {j \in DOMAIN written[i].fields :
                    written[i].fields[j][1] = "co2"}
      IN  /\ CO2 <= 0 => co2 = {}
          /\ CO2 > 0 => /\ Cardinality(co2) = 1
                        /\ \A j \in co2 : written[i].fields[j][2] = CO2

\* a point was written in a cycle in which both sensors read 0: pm2.5 is in
\* the point with value 0, co2 is not
C11_Witness ==
  /\ Len(written) = 1
  /\ hasPM /\ hasCO2
  /\ Reading("pm") = 0 /\ Reading("co2") = 0
  /\ "co2" \notin FieldKeys(written[1].fields)
  /\ \E j \in DOMAIN written[1].fields : written[1].fields[j] = <<"pm2.5", 0>>

\* the value of the field of the given key in a point that has it
FieldOf(point, key) ==
  LET j == CHOOSE j \in DOMAIN point.fields : point.fields[j][1] = key
  IN  point.fields[j][2]

\* the exponent of a common scale for two floats, zero having none
C12_Scale(a, b) ==
  IF a.m = 0 THEN (IF b.m = 0 THEN 0 ELSE Min(b.e, 0))
  ELSE IF b.m = 0 THEN Min(a.e, 0) ELSE Min(Min(a.e, b.e), 0)

\* v as an integer multiple of 2^q
C12_Scaled(v, q) == IF v.m = 0 THEN 0 ELSE v.s * v.m * 2 ^ (v.e - q)

\* 5 * (tf - (tc * 1.8 + 32)) as an integer multiple of 2^q, computed
\* exactly: tc * 1.8 + 32 = (9 * tc + 160) / 5
C12_Error(tc, tf) ==
  LET q == C12_Scale(tc, tf)
  IN  5 * C12_Scaled(tf, q) - (9 * C12_Scaled(tc, q) + 160 * 2 ^ (0 - q))

C12_Abs(n) == IF n < 0 THEN 0 - n ELSE n

\* temp_c and temp_f are two fields of the point, temp_c the value read
C12_TwoFields(point) ==
  /\ Cardinality({j \in DOMAIN point.fields :
                    point.fields[j][1] = "temp_c"}) = 1
  /\ Cardinality({j \in DOMAIN point.fields :
                    point.fields[j][1] = "temp_f"}) = 1
  /\ FieldOf(point, "temp_c") = ReadEvent("sht")[3]

OpKind(e) == IF e[1] = "read" THEN e[2] ELSE e[1]

TraceKinds == [i \in DOMAIN trace |-> OpKind(trace[i])]

\* the operations of a connected cycle in program order, for the flags
C13_Order ==
  <<"poll", "clearFields">>
  \o (IF hasPM THEN <<"pm", "display", "delay">> ELSE <<>>)
  \o (IF hasCO2 THEN <<"co2", "display", "delay">> ELSE <<>>)
  \o (IF hasSHT THEN <<"sht", "display", "delay">> ELSE <<>>)
  \o <<"rssi", "writePoint">>

\* C13: at every moment of a connected cycle the operations done so far
\* are an initial part of: poll, clearFields, then read, display and pause
\* of each enabled sensor in the order PM, CO2, SHT, then rssi, then one
\* writePoint; a finished cycle has done all of them.  A sensor's read is
\* followed by its display and pause before the next read starts.
C13_FixedOrder ==
  CyclePolled(TRUE)
    => /\ Len(trace) <= Len(C13_Order)
       /\ TraceKinds = SubSeq(C13_Order, 1, Len(trace))
       /\ CycleDone => Len(trace) = Len(C13_Order)

\* a connected cycle has ended with PM and SHT enabled and CO2 disabled
C13_Witness ==
  /\ CycleDone
  /\ CyclePolled(TRUE)
  /\ hasPM /\ ~hasCO2 /\ hasSHT
  /\ Len(trace) = 10

\* C15: in a boot that has loaded the configuration, validateConnection is
\* called once, after loadConfig and never from loop(); whatever it returns,
\* setup() ends without a restart, loop() can be entered, and a connected
\* cycle hands its point to writePoint.
C15_ValidateStep ==
  (pc = "validate" /\ pc' # pc)
    => /\ loadResult # "none"
       /\ validations = <<>>
       /\ Len(validations') = 1
       /\ pc' = "loop"
       /\ restarts' = restarts

C15_OnlyInSetup ==
  (pc # "validate") => validations' = validations \/ validations' = <<>>

C15_State ==
  /\ Len(validations) <= 1
  /\ (loadResult # "none" /\ pc \in {"loop", "pm", "co2", "sht", "rssi", "write"})
       => Len(validations) = 1
  /\ (validations # <<>> /\ pc = "loop") => ENABLED LoopPoll
  /\ (validations # <<>> /\ CycleDone /\ CyclePolled(TRUE))
       => Len(written) = 1

IsSensorRead(i) ==
  /\ trace[i][1] = "read"
  /\ trace[i][2] \in {"pm", "co2", "sht"}

\* the display after a PM or CO2 read at position i: the label, and "error"
\* exactly when the point has no such field, the reading exactly when the
\* point has the field with the reading as value
C16_ShownMatchesField(i, label, key) ==
  LET v == trace[i][3]
      shown == trace[i + 1][3]
      field == {j \in DOMAIN sensorFields : sensorFields[j][1] = key}
  IN  /\ trace[i + 1][2] = label
      /\ (shown = StrError) <=> (field = {})
      /\ (shown = IntToString(v)) <=> (field # {})
      /\ \A j \in field : sensorFields[j][2] = v
      /\ shown = StrError \/ shown = IntToString(v)

\* C16: in a connected cycle every sensor read is directly followed by one
\* display update and the pause, before the next read; there is no other
\* display update (none for a disabled sensor); for PM and CO2 the display
\* shows "error" exactly when the field is left out and the reading exactly
\* when the field is added; the screen holds the last update.
C16_DisplayAfterEachRead ==
  CyclePolled(TRUE) =>
    /\ \A i \in DOMAIN trace :
         /\ IsSensorRead(i) =>
              /\ i + 2 <= Len(trace)
              /\ trace[i + 1][1] = "display"
              /\ trace[i + 2][1] = "delay"
              /\ trace[i][2] = "pm" => C16_ShownMatchesField(i, StrPM2, "pm2.5")
              /\ trace[i][2] = "co2" => C16_ShownMatchesField(i, StrCO2, "co2")
         /\ trace[i][1] = "display" => (i > 1 /\ IsSensorRead(i - 1))
    /\ \A i \in DOMAIN trace :
         (trace[i][1] = "display"
            /\ \A k \in (i + 1)..Len(trace) : trace[k][1] # "display")
           => display = <<trace[i][2], trace[i][3]>>
    /\ ((~hasPM /\ ~hasCO2 /\ ~hasSHT) =>
          \A i \in DOMAIN trace : trace[i][1] # "display")

\* a cycle has shown "error" for PM and then the reading for CO2
C16_Witness ==
  /\ CyclePolled(TRUE)
  /\ hasPM /\ hasCO2 /\ ~hasSHT
  /\ pc = "write"
  /\ Reading("pm") < 0
  /\ Reading("co2") = 400
  /\ display = <<StrCO2, <<"4", "0", "0">>>>
  /\ FieldKeys(sensorFields) = {"co2", "rssi"}

\* C17: every sensor read of loop() is of a sensor whose init was called
\* in this boot.
C17_ReadOnlyAfterInit ==
  \A i \in DOMAIN trace : IsSensorRead(i) => trace[i][2] \in inited

\* C18: a loadConfig that cannot open the file or cannot parse it returns
\* false and leaves deviceConfig and the client (connection parameters,
\* certificate, insecure flag) as they were before the call.
C18_FailedLoadStep ==
  (loadResult = "none" /\ loadResult' # "none" /\ configFile.kind # "doc")
    => /\ loadResult' = "false"
       /\ deviceConfig' = deviceConfig
       /\ client' = client

C18_FailedLoadChangesNothing ==
  /\ [][C18_FailedLoadStep]_vars
  /\ [](loadResult = "false" =>
          (deviceConfig = DeviceConfigInit /\ client = ClientInit))

\* loadConfig has failed on a malformed file and setup() has gone on
C18_Witness ==
  /\ loadResult = "false"
  /\ configFile.kind = "malformed"
  /\ pc = "validate"

\* the operations of the current cycle as determined by the flags, the
\* poll result, the readings taken so far and the write result alone
C19_SensorOps(kind, label, valid) ==
  IF HasRead(kind)
  THEN <<ReadEvent(kind),
         <<"display", label,
           IF valid THEN IntToString(Reading(kind)) ELSE StrError>>,
         <<"delay", PauseSensor>>>>
  ELSE <<>>

C19_SHTOps ==
  IF HasRead("sht")
  THEN <<ReadEvent("sht"),
         <<"display", FloatToString(TempF(ReadEvent("sht")[3])),
           IntToString(ReadEvent("sht")[4]) \o <<"%">>>>,
         <<"delay", PauseSensor>>>>
  ELSE <<>>

C19_CycleOps ==
  IF trace[1][2]
  THEN <<<<"poll", TRUE>>, <<"clearFields">>>>
       \o (IF hasPM
           THEN C19_SensorOps("pm", StrPM2, HasRead("pm") /\ Reading("pm") >= 0)
           ELSE <<>>)
       \o (IF hasCO2
           THEN C19_SensorOps("co2", StrCO2,
                              HasRead("co2") /\ Reading("co2") > 0)
           ELSE <<>>)
       \o (IF hasSHT THEN C19_SHTOps ELSE <<>>)
       \o (IF HasRead("rssi") THEN <<ReadEvent("rssi")>> ELSE <<>>)
       \o (IF trace[Len(trace)][1] = "writePoint"
           THEN <<trace[Len(trace)]>> ELSE <<>>)
  ELSE <<<<"poll", FALSE>>, <<"delay", PauseDisconnected>>>>

\* C19: the reads, display updates, pauses and writePoint calls of a cycle,
\* and the fields of the written point, are a function of the flags, the
\* radio status, the readings and the write result in which sample_delay
\* does not occur; so two runs that differ in sample_delay only and get the
\* same statuses and readings do the same operations with the same points.
C19_SampleDelayUnused ==
  (Len(trace) > 0 /\ trace[1][1] = "poll")
    => /\ trace = C19_CycleOps
       /\ \A i \in DOMAIN written : written[i].fields = C6_CycleFields
       /\ \A i \in DOMAIN written :
            written[i].tags \in
              {<<>>, <<<<"device", DEVICE>>, <<"id", DeviceId>>,
                       <<"deviceName", deviceConfig.deviceName>>>>}

\* with sample_delay 60000 loaded, a connected cycle has read PM, paused
\* 3000 and written its point
C19_Witness ==
  /\ deviceConfig.sampleDelay = 60000
  /\ CycleDone
  /\ CyclePolled(TRUE)
  /\ hasPM
  /\ trace[5] = <<"delay", PauseSensor>>
  /\ Len(written) = 1

\* C14: a poll that reports connected starts sampling whatever the earlier
\* cycles were (no latch, no backoff, no skipped cycle) and the cycle it
\* starts ends with one writePoint; so when from some cycle on no poll
\* reports disconnected, points are handed to writePoint again and again.
C14_ConnectedPollSamples ==
  (pc = "loop" /\ CyclePolled(TRUE)')
    => /\ pc' = "pm"
       /\ sensorFields' = <<>>
       /\ trace' = <<<<"poll", TRUE>>, <<"clearFields">>>>

C14_NoLatch ==
  /\ [][C14_ConnectedPollSamples]_vars
  /\ []((CycleDone /\ CyclePolled(TRUE)) => Len(written) = 1)
  /\ (<>[](~CyclePolled(FALSE))) => []<>(pc = "write")

\* a cycle whose poll reported connected has sampled and reached its write
C14_Witness ==
  /\ pc = "write"
  /\ CyclePolled(TRUE)
  /\ restarts = 0

====
